---- MODULE Spec2Model ----
(***************************************************************************)
(* Workflow orchestration core of brandAGI: the workflow parser            *)
(* (lib/orchestrator/workflow-parser.ts), the execution state store        *)
(* (lib/orchestrator/state-manager.ts) and the master orchestrator         *)
(* (lib/orchestrator/index.ts), together with the strategy agent's         *)
(* decision continuation (agents/strategy-agent).                          *)
(***************************************************************************)
EXTENDS Integers, Sequences, FiniteSets, TLC

\* ------------------------------------------------------------------ bounds
MaxNodes == 3          \* largest graph handed to validateWorkflow
MaxDeps == 2           \* most dependency ids on one node of such a graph
MaxRetries == 2        \* largest retryPolicy.maxRetries of a workflow node
MaxDecisions == 2      \* decision rows the strategy agent may insert
MaxRecords == 2        \* workflow_states rows ever inserted (runs started)

\* ------------------------------------------------------- program constants
DefaultBackoffMs == 1000   \* index.ts:310  node.retryPolicy?.backoffMs || 1000
DefaultMaxRetries == 0     \* index.ts:213  node.retryPolicy?.maxRetries || 0

\* ------------------------------------------------------------ value spaces
IdPool == <<"A", "B", "C", "D", "E">>
Missing == "Z"             \* an id that names no node of any graph
Null == "null"
Options == {"opt1", "opt2"}    \* the two options of a strategy decision
BadOption == "optX"
BackoffChoices == {0, 100}

NoPolicy == [defined |-> FALSE, maxRetries |-> 0, backoffMs |-> 0]

Policy(n, b) == [defined |-> TRUE, maxRetries |-> n, backoffMs |-> b]

\* WorkflowNodeType (common/types WorkflowNodeSchema), as parseWorkflowYAML
\* builds it: dependencies default to [], requiresApproval to false. The file
\* sets runQA and runCodeReview to false unless WithChecks says otherwise.
Node(id, deps, approval, policy) ==
  [id |-> id, dependencies |-> deps, requiresApproval |-> approval,
   retryPolicy |-> policy, runQA |-> FALSE, runCodeReview |-> FALSE]

\* the same graph with runQA / runCodeReview written on every node
WithChecks(nodes, qa, review) ==
  [i \in 1..Len(nodes) |->
     [nodes[i] EXCEPT !.runQA = qa, !.runCodeReview = review]]

Range(s) == {s[i] : i \in 1..Len(s)}

Includes(s, x) == \E i \in 1..Len(s) : s[i] = x

RECURSIVE SeqFilter(_, _)
\* Array.prototype.filter over a sequence, keeping the elements in Keep
SeqFilter(s, Keep) ==
  IF s = <<>> THEN <<>>
  ELSE IF Head(s) \in Keep THEN <<Head(s)>> \o SeqFilter(Tail(s), Keep)
       ELSE SeqFilter(Tail(s), Keep)

RECURSIVE Pow2(_)
Pow2(n) == IF n <= 0 THEN 1 ELSE 2 * Pow2(n - 1)

\* ------------------------------------------------------------ workflow-parser
FindNode(wf, nodeId) ==
  IF \E i \in 1..Len(wf) : wf[i].id = nodeId
  THEN wf[CHOOSE i \in 1..Len(wf) :
            wf[i].id = nodeId /\ \A j \in 1..(i - 1) : wf[j].id # nodeId]
  ELSE Node(Null, <<>>, FALSE, NoPolicy)

NodeExists(wf, nodeId) == \E i \in 1..Len(wf) : wf[i].id = nodeId

areDependenciesSatisfied(node, completedNodes) ==
  \A i \in 1..Len(node.dependencies) : Includes(completedNodes, node.dependencies[i])

RECURSIVE getNextNodesIgnoringFailed(_, _, _)
\* getNextNodes without the failedNodes test of the filter
getNextNodesIgnoringFailed(wf, completedNodes, failedNodes) ==
  IF wf = <<>> THEN <<>>
  ELSE LET node == Head(wf)
           rest == getNextNodesIgnoringFailed(Tail(wf), completedNodes, failedNodes)
       IN IF Includes(completedNodes, node.id)
          THEN rest
          ELSE IF areDependenciesSatisfied(node, completedNodes)
               THEN <<node.id>> \o rest
               ELSE rest

RECURSIVE getNextNodesNoGating(_, _, _)
\* getNextNodes without the dependency test of the filter
getNextNodesNoGating(wf, completedNodes, failedNodes) ==
  IF wf = <<>> THEN <<>>
  ELSE LET node == Head(wf)
           rest == getNextNodesNoGating(Tail(wf), completedNodes, failedNodes)
       IN IF Includes(completedNodes, node.id) \/ Includes(failedNodes, node.id)
          THEN rest
          ELSE <<node.id>> \o rest

RECURSIVE getNextNodesReversed(_, _, _)
\* getNextNodes returning the eligible nodes last-declared first
getNextNodesReversed(wf, completedNodes, failedNodes) ==
  IF wf = <<>> THEN <<>>
  ELSE LET node == Head(wf)
           rest == getNextNodesReversed(Tail(wf), completedNodes, failedNodes)
       IN IF Includes(completedNodes, node.id) \/ Includes(failedNodes, node.id)
          THEN rest
          ELSE IF areDependenciesSatisfied(node, completedNodes)
               THEN rest \o <<node.id>>
               ELSE rest

RECURSIVE getNextNodes(_, _, _)
getNextNodes(wf, completedNodes, failedNodes) ==
  IF wf = <<>> THEN <<>>
  ELSE LET node == Head(wf)
           rest == getNextNodes(Tail(wf), completedNodes, failedNodes)
       IN IF Includes(completedNodes, node.id) \/ Includes(failedNodes, node.id)
          THEN rest
          ELSE IF areDependenciesSatisfied(node, completedNodes)
               THEN <<node.id>> \o rest
               ELSE rest

\* hasCycle of validateWorkflow: depth-first search over the dependency ids
\* with the closure's two shared sets.  Returns the answer and the sets as
\* the call leaves them (a call that answers true leaves its stack entries).
RECURSIVE hasCycle(_, _, _, _)
RECURSIVE hasCycleDeps(_, _, _, _)
hasCycleDeps(wf, deps, visited, stack) ==
  IF deps = <<>> THEN [found |-> FALSE, visited |-> visited, stack |-> stack]
  ELSE LET r == hasCycle(wf, Head(deps), visited, stack)
       IN IF r.found THEN r
          ELSE hasCycleDeps(wf, Tail(deps), r.visited, r.stack)

\* hasCycle with the visited test ahead of the recursion-stack test
hasCycleVisitedFirst(wf, nodeId, visited, stack) ==
  IF nodeId \in visited THEN [found |-> FALSE, visited |-> visited, stack |-> stack]
  ELSE IF nodeId \in stack
       THEN [found |-> TRUE, visited |-> visited, stack |-> stack]
       ELSE LET v == visited \cup {nodeId}
                s == stack \cup {nodeId}
                r == IF NodeExists(wf, nodeId)
                     THEN hasCycleDeps(wf, FindNode(wf, nodeId).dependencies, v, s)
                     ELSE [found |-> FALSE, visited |-> v, stack |-> s]
            IN IF r.found THEN r
               ELSE [found |-> FALSE, visited |-> r.visited,
                     stack |-> r.stack \ {nodeId}]

hasCycle(wf, nodeId, visited, stack) ==
  IF nodeId \in stack THEN [found |-> TRUE, visited |-> visited, stack |-> stack]
  ELSE IF nodeId \in visited
       THEN [found |-> FALSE, visited |-> visited, stack |-> stack]
       ELSE LET v == visited \cup {nodeId}
                s == stack \cup {nodeId}
                r == IF NodeExists(wf, nodeId)
                     THEN hasCycleDeps(wf, FindNode(wf, nodeId).dependencies, v, s)
                     ELSE [found |-> FALSE, visited |-> v, stack |-> s]
            IN IF r.found THEN r
               ELSE [found |-> FALSE, visited |-> r.visited,
                     stack |-> r.stack \ {nodeId}]

RECURSIVE CycleErrors(_, _, _, _)
\* first loop of validateWorkflow: one error per node for which hasCycle
\* answers true
CycleErrors(wf, i, visited, stack) ==
  IF i > Len(wf) THEN <<>>
  ELSE LET r == hasCycle(wf, wf[i].id, visited, stack)
       IN (IF r.found THEN <<[kind |-> "cycle", node |-> wf[i].id, dep |-> Null]>>
           ELSE <<>>)
          \o CycleErrors(wf, i + 1, r.visited, r.stack)

RECURSIVE MissingDepErrors(_, _, _)
\* second loop of validateWorkflow: one error per dependency id that names
\* no node
MissingDepErrors(wf, i, j) ==
  IF i > Len(wf) THEN <<>>
  ELSE IF j > Len(wf[i].dependencies) THEN MissingDepErrors(wf, i + 1, 1)
       ELSE (IF ~NodeExists(wf, wf[i].dependencies[j])
             THEN <<[kind |-> "missing", node |-> wf[i].id,
                     dep |-> wf[i].dependencies[j]]>>
             ELSE <<>>)
            \o MissingDepErrors(wf, i, j + 1)

validateWorkflow(wf) ==
  LET errors == CycleErrors(wf, 1, {}, {}) \o MissingDepErrors(wf, 1, 1)
  IN [valid |-> (Len(errors) = 0), errors |-> errors]


\* ------------------------------------------------------------ input graphs
\* Graphs handed to validateWorkflow alone: up to MaxNodes nodes, each with
\* up to MaxDeps dependency ids (listed in pool order), which may name the
\* node itself, another node of the graph, or Missing.
DepSeqs(candidates) ==
  {SeqFilter(candidates, S) :
     S \in {T \in SUBSET Range(candidates) : Cardinality(T) <= MaxDeps}}

ValidationGraph(k, d) == [i \in 1..k |-> Node(IdPool[i], d[i], FALSE, NoPolicy)]

\* Graphs the orchestrator runs: a chain, two siblings with a join, and three
\* graphs validateWorkflow rejects, each under every retry policy; and the
\* chain and the join with the approval flag on one node, without a retry
\* policy and with one retry.
Chain == << <<"A", <<>> >>, <<"B", <<"A">> >>, <<"C", <<"B">> >> >>

Join == << <<"A", <<>> >>, <<"B", <<>> >>, <<"C", <<"A", "B">> >> >>

Cycle == << <<"A", <<"B">> >>, <<"B", <<"A">> >> >>

Dangling == << <<"A", <<>> >>, <<"B", <<Missing>> >> >>

SelfDependent == << <<"A", <<"A">> >>, <<"B", <<>> >> >>

Shapes == {Chain, Join, Cycle, Dangling, SelfDependent}

ApprovalShapes == {<<Chain, "B">>, <<Join, "A">>, <<Join, "B">>}

Policies ==
  {NoPolicy} \cup {Policy(n, b) : n \in 0..MaxRetries, b \in BackoffChoices}

ApprovalPolicies == {NoPolicy, Policy(1, 100)}

Build(shape, approvalId, policy) ==
  [i \in 1..Len(shape) |->
     Node(shape[i][1], shape[i][2], shape[i][1] = approvalId, policy)]

Workflows ==
  {Build(sh, Null, pol) : sh \in Shapes, pol \in Policies}
    \cup {Build(sh[1], sh[2], pol) : sh \in ApprovalShapes, pol \in ApprovalPolicies}

\* ------------------------------------------------------------------- state
Procs == {"p1", "p2"}      \* request handlers that can be in flight

VARIABLES
  graph,        \* workflows/brand_workflow.yaml as parseWorkflowYAML reads it
  workflow,     \* MasterOrchestrator.workflow (loaded = FALSE is null)
  rows,         \* table workflow_states for the project, oldest row first
  decisions,    \* table decisions; the decision id is the index
  nextId,       \* number of workflow_states rows inserted so far
  cancelled,    \* history: cancelWorkflow has updated the current row
  delegateFailed, \* history: a delegate call failed since the row was inserted
  validation,   \* result of a bare validateWorkflow(graph) call
  checks,       \* verdicts of qaAgent / codeReviewAgent in the last attempt
  pr            \* per request handler: position and locals

vars ==
  <<graph, workflow, rows, decisions, nextId, cancelled, delegateFailed, validation,
    checks, pr>>

NoResult == [kind |-> "none", status |-> Null, completedNodes |-> <<>>,
             failedNodes |-> <<>>, pendingDecisions |-> <<>>]

Returned(status, completed, failed, pending) ==
  [kind |-> "value", status |-> status, completedNodes |-> completed,
   failedNodes |-> failed, pendingDecisions |-> pending]

Thrown(message) ==
  [kind |-> "error", status |-> message, completedNodes |-> <<>>,
   failedNodes |-> <<>>, pendingDecisions |-> <<>>]

FailureResult(message) ==
  [kind |-> "failure", status |-> message, completedNodes |-> <<>>,
   failedNodes |-> <<>>, pendingDecisions |-> <<>>]

\* const state of a state-manager call before getWorkflowState has resolved
NoState == [id |-> 0, currentNode |-> Null, completedNodes |-> <<>>,
            failedNodes |-> <<>>, pendingDecisions |-> <<>>, status |-> Null]

IdleProc ==
  [pc |-> "idle", op |-> "none", batch |-> <<>>, node |-> Null, retries |-> 0,
   attempts |-> 0, delays |-> <<>>, agentResult |-> "none", result |-> "none",
   decisionId |-> 0, state |-> NoState, ret |-> NoResult]

NoChecks == [qa |-> "none", review |-> "none"]

NoValidation == [done |-> FALSE, valid |-> TRUE, errors |-> <<>>]

NotLoaded == [loaded |-> FALSE, nodes |-> <<>>]

\* --------------------------------------------------------------- state-manager
NewRow(id) ==
  [id |-> id, currentNode |-> Null, completedNodes |-> <<>>, failedNodes |-> <<>>,
   pendingDecisions |-> <<>>, status |-> "running"]

createWorkflowState(rs, id) == Append(rs, NewRow(id))

HasState(rs) == rs # <<>>

getWorkflowState(rs) == rs[1]

updateWorkflowState(rs, updates) ==
  [i \in 1..Len(rs) |->
     [f \in DOMAIN rs[i] |-> IF f \in DOMAIN updates THEN updates[f] ELSE rs[i][f]]]

\* the updates markNodeComplete writes after reading state
markNodeCompleteUpdates(state, nodeId) ==
  [completedNodes |-> Append(state.completedNodes, nodeId), currentNode |-> Null]

\* the updates markNodeFailed writes after reading state
markNodeFailedUpdates(state, nodeId) ==
  [failedNodes |-> Append(state.failedNodes, nodeId),
   currentNode |-> Null,
   status |-> "failed"]

\* the updates addPendingDecision writes after reading state
addPendingDecisionUpdates(state, decisionId) ==
  [pendingDecisions |-> Append(state.pendingDecisions, decisionId),
   status |-> "paused"]

\* the updates removePendingDecision writes after reading state
removePendingDecisionUpdates(state, decisionId) ==
  LET pendingDecisions ==
        SeqFilter(state.pendingDecisions, Range(state.pendingDecisions) \ {decisionId})
  IN [pendingDecisions |-> pendingDecisions,
      status |-> IF Len(pendingDecisions) > 0 THEN "paused" ELSE "running"]

\* the updates cancelWorkflow writes; it reads nothing
cancelWorkflowUpdates == [status |-> "failed", currentNode |-> Null]

\* markNodeComplete that clears currentNode and leaves the list as it is
markNodeCompleteForgets(rs, nodeId) == updateWorkflowState(rs, [currentNode |-> Null])

\* markNodeComplete putting the id at the front of the list
markNodeCompletePrepend(rs, nodeId) ==
  updateWorkflowState(rs,
    [completedNodes |-> <<nodeId>> \o getWorkflowState(rs).completedNodes,
     currentNode |-> Null])

markNodeComplete(rs, nodeId) ==
  updateWorkflowState(rs, markNodeCompleteUpdates(getWorkflowState(rs), nodeId))

\* markNodeFailed writing a list that holds the new id only
markNodeFailedReplaces(rs, nodeId) ==
  updateWorkflowState(rs,
    [failedNodes |-> <<nodeId>>, currentNode |-> Null, status |-> "failed"])

\* markNodeFailed writing the status without the failedNodes list
markNodeFailedStatusOnly(rs, nodeId) ==
  updateWorkflowState(rs, [currentNode |-> Null, status |-> "failed"])

markNodeFailed(rs, nodeId) ==
  updateWorkflowState(rs, markNodeFailedUpdates(getWorkflowState(rs), nodeId))

addPendingDecision(rs, decisionId) ==
  updateWorkflowState(rs, addPendingDecisionUpdates(getWorkflowState(rs), decisionId))

\* removePendingDecision writing running and leaving the list as it is
removePendingDecisionKeeps(rs, decisionId) ==
  updateWorkflowState(rs, [status |-> "running"])

removePendingDecision(rs, decisionId) ==
  updateWorkflowState(rs, removePendingDecisionUpdates(getWorkflowState(rs), decisionId))

setCurrentNode(rs, nodeId) == updateWorkflowState(rs, [currentNode |-> nodeId])

completeWorkflow(rs) ==
  updateWorkflowState(rs, [status |-> "completed", currentNode |-> Null])

\* deleteWorkflowState that removes nothing
deleteWorkflowStateNothing(rs) == rs

deleteWorkflowState(rs) == <<>>

\* stop writes the status and leaves currentNode as it is
cancelWorkflowStatusOnly(rs) == updateWorkflowState(rs, [status |-> "failed"])

cancelWorkflow(rs) == updateWorkflowState(rs, cancelWorkflowUpdates)


\* ----------------------------------------------------------------- orchestrator
Status == IF HasState(rows) THEN getWorkflowState(rows).status ELSE Null

maxRetriesOf(node) ==
  IF node.retryPolicy.defined /\ node.retryPolicy.maxRetries # 0
  THEN node.retryPolicy.maxRetries ELSE DefaultMaxRetries

backoffMsOf(node) ==
  IF node.retryPolicy.defined /\ node.retryPolicy.backoffMs # 0
  THEN node.retryPolicy.backoffMs ELSE DefaultBackoffMs

\* delay = backoffMs * Math.pow(2, retries - 1), retries already incremented
backoffDelay(node, retries) == backoffMsOf(node) * Pow2(retries - 1)

\* the test of the retry loop (while retries <= maxRetries) and of the catch
\* block (if retries <= maxRetries): both read retries after the increment
shouldRetryStrict(node, retries) == retries < maxRetriesOf(node)

shouldRetry(node, retries) == retries <= maxRetriesOf(node)

\* initialize(): the field is assigned before the validation result is looked at
initialize(g) ==
  [workflow |-> [loaded |-> TRUE, nodes |-> g], ok |-> validateWorkflow(g).valid]

Set(p, updates) ==
  [pr EXCEPT ![p] = [f \in DOMAIN pr[p] |->
                       IF f \in DOMAIN updates THEN updates[f] ELSE pr[p][f]]]

\* the handler returns (or throws) to its caller: its locals are gone
Return(p, value) ==
  [pr EXCEPT ![p] = [IdleProc EXCEPT !.ret = value, !.op = pr[p].op]]

\* startWorkflow continues an existing run only when its status is paused
isResumablePausedOnly(status) == status = "paused"

\* startWorkflow continues an existing run only when its status is running
isResumableRunningOnly(status) == status = "running"

\* existingState.status === 'running' || existingState.status === 'paused'
isResumable(status) == status \in {"running", "paused"}

\* startWorkflow up to its call of executeNextNodes
StartWorkflow(p) ==
  /\ pr[p].pc = "idle"
  /\ LET init == IF workflow.loaded THEN [workflow |-> workflow, ok |-> TRUE]
                 ELSE initialize(graph)
         resume == HasState(rows) /\ isResumable(Status)
     IN /\ workflow' = init.workflow
        /\ IF ~init.ok
           THEN /\ pr' = [pr EXCEPT ![p] = [IdleProc EXCEPT
                                               !.ret = Thrown("Invalid workflow"),
                                               !.op = "start"]]
                /\ UNCHANGED <<rows, nextId, cancelled, delegateFailed>>
           ELSE IF resume
           THEN /\ pr' = Set(p, [pc |-> "loop", op |-> "start", ret |-> NoResult])
                /\ UNCHANGED <<rows, nextId, cancelled, delegateFailed>>
           ELSE /\ nextId < MaxRecords
                /\ rows' = createWorkflowState(deleteWorkflowState(rows), nextId + 1)
                /\ nextId' = nextId + 1
                /\ cancelled' = FALSE
                /\ delegateFailed' = FALSE
                /\ pr' = Set(p, [pc |-> "loop", op |-> "start", ret |-> NoResult])
  /\ UNCHANGED <<checks, graph, decisions, validation>>

\* executeNextNodes up to the first executeNode of the batch (or its return)
ExecuteNextNodes(p) ==
  /\ pr[p].pc = "loop"
  /\ LET init == IF workflow.loaded THEN [workflow |-> workflow, ok |-> TRUE]
                 ELSE initialize(graph)
     IN /\ workflow' = init.workflow
        /\ IF ~init.ok
           THEN /\ pr' = Return(p, Thrown("Invalid workflow"))
                /\ UNCHANGED rows
           ELSE IF ~HasState(rows)
           THEN /\ pr' = Return(p, Thrown("Workflow state not found"))
                /\ UNCHANGED rows
           ELSE LET state == getWorkflowState(rows)
                    nextNodes == getNextNodes(init.workflow.nodes,
                                              state.completedNodes, state.failedNodes)
                IN IF state.status = "paused"
                   THEN /\ pr' = Return(p, Returned("paused", <<>>, <<>>,
                                                    state.pendingDecisions))
                        /\ UNCHANGED rows
                   ELSE IF state.status \in {"completed", "failed"}
                   THEN /\ pr' = Return(p, Returned(state.status, state.completedNodes,
                                                    state.failedNodes, <<>>))
                        /\ UNCHANGED rows
                   ELSE IF Len(nextNodes) = 0
                   THEN /\ rows' = completeWorkflow(rows)
                        /\ pr' = Return(p, Returned("completed", state.completedNodes,
                                                    <<>>, <<>>))
                   ELSE /\ pr' = Set(p, [pc |-> "node", batch |-> nextNodes])
                        /\ UNCHANGED rows
  /\ UNCHANGED <<checks, graph, decisions, nextId, cancelled, delegateFailed, validation>>

\* a batch loop that never breaks
breaksBatchNever(result) == FALSE

\* if (result.requiresApproval) break
breaksBatch(result) == result = "awaiting_approval"

\* the for loop of executeNextNodes takes the next node of the batch:
\* executeNode from its entry to the head of the retry loop. logOk is whether
\* the insert of logEvent succeeds; its rejection leaves executeNode, the loop
\* and the handler as an exception
EnterNode(p, logOk) ==
  /\ pr[p].pc = "node"
  /\ ~breaksBatch(pr[p].result)
  /\ pr[p].batch # <<>>
  /\ rows' = setCurrentNode(rows, Head(pr[p].batch))
  /\ pr' = IF logOk
           THEN Set(p, [pc |-> "agent", node |-> Head(pr[p].batch),
                        batch |-> Tail(pr[p].batch), retries |-> 0, attempts |-> 0,
                        delays |-> <<>>, agentResult |-> "none", result |-> "none"])
           ELSE Return(p, Thrown("Log insert failed"))
  /\ UNCHANGED <<checks, graph, workflow, decisions, nextId, cancelled, delegateFailed,
                 validation>>

\* the same with the log table accepting every insert
ExecuteNode(p) == EnterNode(p, TRUE)

\* the for loop of executeNextNodes ends: break and return paused when the
\* last result asked for approval, else the recursive call
BatchDone(p) ==
  /\ pr[p].pc = "node"
  /\ breaksBatch(pr[p].result) \/ pr[p].batch = <<>>
  /\ pr' = IF pr[p].result = "awaiting_approval"
           THEN Return(p, Returned("paused", <<>>, <<>>, <<>>))
           ELSE [pr EXCEPT ![p] = [IdleProc EXCEPT !.pc = "loop", !.op = pr[p].op]]
  /\ UNCHANGED <<checks, graph, workflow, rows, decisions, nextId, cancelled, delegateFailed,
                 validation>>

\* what runAgent can do: throw ("fail"), resolve with success false
\* ("no_success"), resolve with success true, with a decision_id in the data
\* when the node is an approval node
AgentOutcomes(node) ==
  IF node.requiresApproval THEN {"fail", "no_success", "ok", "ok_decision"}
  ELSE {"fail", "no_success", "ok"}

\* a try block that goes on after a result with success false
agentFailsOnThrowOnly(outcome) == outcome = "fail"

\* the delegate call ends in the catch block: runAgent threw, or
\* if (!agentResult.success) throw new Error(...)
agentFails(outcome) == outcome \in {"fail", "no_success"}

\* id of the project's row (0 without a row)
RunId == IF HasState(rows) THEN getWorkflowState(rows).id ELSE 0

\* what a side check can answer for the node: it runs when the flag is set and
\* the delegate succeeded, and its data says pass (approved) or not
Verdicts(flag, outcome) ==
  IF flag /\ ~agentFails(outcome) THEN {"pass", "fail"} ELSE {"none"}

\* a side check whose negative verdict throws inside the try block
checkThrowsOnFail(verdict) == verdict = "fail"

\* if (qaResult.success && qaResult.data && !qaResult.data.pass) console.warn:
\* "Log warning but don't fail the node"; the same for the code review
checkThrows(verdict) == FALSE

\* one pass of the retry loop of executeNode: the delegate runs with the given
\* outcome and the side checks with the given verdicts, and the code that
\* follows up to the next delegate call. logOk is whether the inserts of
\* logEvent succeed during the pass: a rejected insert inside the try block is
\* caught like a delegate failure, one after markNodeFailed leaves executeNode
TryNode(p, outcome, qa, review, logOk) ==
  /\ pr[p].pc = "agent"
  /\ LET node == FindNode(workflow.nodes, pr[p].node)
         decisionId == Len(decisions) + 1
         inserted == IF outcome = "ok_decision"
                     THEN Append(decisions, [nodeId |-> node.id, status |-> "pending",
                                             selectedOption |-> Null])
                     ELSE decisions
         \* addPendingDecision / markNodeComplete throw inside the try block
         \* when the row is gone
         thrown == \/ agentFails(outcome)
                   \/ checkThrows(qa) \/ checkThrows(review)
                   \/ ~HasState(rows)
         awaits == node.requiresApproval /\ outcome = "ok_decision"
         written == IF thrown THEN rows
                    ELSE IF awaits THEN addPendingDecision(rows, decisionId)
                    ELSE markNodeComplete(rows, node.id)
         caught == thrown \/ ~logOk
         retries == pr[p].retries + 1
     IN /\ outcome \in AgentOutcomes(node)
        /\ outcome = "ok_decision" => Len(decisions) < MaxDecisions
        /\ decisions' = inserted
        /\ delegateFailed' = (delegateFailed \/ agentFails(outcome))
        /\ IF ~caught /\ awaits
           THEN /\ rows' = written
                /\ pr' = Set(p, [pc |-> "node",
                                 attempts |-> pr[p].attempts + 1,
                                 agentResult |-> outcome,
                                 result |-> "awaiting_approval"])
           ELSE IF ~caught
           THEN /\ rows' = written
                /\ pr' = Set(p, [pc |-> "node",
                                 attempts |-> pr[p].attempts + 1,
                                 agentResult |-> outcome,
                                 result |-> "completed"])
           ELSE IF shouldRetry(node, retries)
           THEN /\ pr' = Set(p, [retries |-> retries,
                                 attempts |-> pr[p].attempts + 1,
                                 agentResult |-> outcome,
                                 delays |-> Append(pr[p].delays,
                                                   backoffDelay(node, retries))])
                /\ rows' = written
           ELSE IF HasState(rows)
           THEN /\ rows' = markNodeFailed(written, node.id)
                /\ pr' = IF logOk
                         THEN Set(p, [pc |-> "node", retries |-> retries,
                                      attempts |-> pr[p].attempts + 1,
                                      agentResult |-> outcome,
                                      result |-> "failed"])
                         ELSE Return(p, Thrown("Log insert failed"))
           ELSE /\ pr' = Return(p, Thrown("Workflow state not found"))
                /\ UNCHANGED rows
  /\ UNCHANGED <<graph, workflow, nextId, cancelled, validation>>

\* the pass with the log table accepting every insert
RunAttempt(p, outcome, qa, review) == TryNode(p, outcome, qa, review, TRUE)

\* the pass with the verdicts of its side checks kept
RunLogged(p, outcome, logOk) ==
  /\ pr[p].pc = "agent"
  /\ LET node == FindNode(workflow.nodes, pr[p].node)
     IN \E qa \in Verdicts(node.runQA, outcome),
           review \in Verdicts(node.runCodeReview, outcome) :
          /\ TryNode(p, outcome, qa, review, logOk)
          /\ checks' = [qa |-> qa, review |-> review]

\* the same with the log table accepting every insert
RunAgent(p, outcome) == RunLogged(p, outcome, TRUE)

\* processStrategyDecision: the decision row after the call and whether the
\* result is a success
processStrategyDecision(ds, decisionId, selectedOption, toolsOk) ==
  IF decisionId > Len(ds) THEN [decisions |-> ds, success |-> FALSE]
  ELSE IF selectedOption \notin Options THEN [decisions |-> ds, success |-> FALSE]
  ELSE [decisions |-> [ds EXCEPT ![decisionId].status = "approved",
                                 ![decisionId].selectedOption = selectedOption],
        success |-> toolsOk]

\* approveDecision up to its call of executeNextNodes
ApproveDecision(p, decisionId, selectedOption, toolsOk) ==
  /\ pr[p].pc = "idle"
  /\ IF ~HasState(rows)
     THEN /\ pr' = [pr EXCEPT ![p] = [IdleProc EXCEPT
                                         !.ret = Thrown("Workflow state not found"),
                                         !.op = "approve"]]
          /\ UNCHANGED <<rows, decisions>>
     ELSE LET removed == removePendingDecision(rows, decisionId)
              r == processStrategyDecision(decisions, decisionId, selectedOption,
                                           toolsOk)
              state == getWorkflowState(removed)
          IN /\ decisions' = r.decisions
             /\ IF r.success
                THEN /\ rows' = IF state.currentNode # Null
                                THEN markNodeComplete(removed, state.currentNode)
                                ELSE removed
                     /\ pr' = Set(p, [pc |-> "loop", op |-> "approve",
                                      ret |-> NoResult])
                ELSE /\ rows' = removed
                     /\ pr' = [pr EXCEPT ![p] = [IdleProc EXCEPT
                                                    !.ret = FailureResult("not processed"),
                                                    !.op = "approve"]]
  /\ UNCHANGED <<checks, graph, workflow, nextId, cancelled, delegateFailed, validation>>

\* POST /api/orchestrator/stop: cancelWorkflow, then the success response
CancelWorkflow(p) ==
  /\ pr[p].pc = "idle"
  /\ rows' = cancelWorkflow(rows)
  /\ cancelled' = (cancelled \/ HasState(rows))
  /\ pr' = [pr EXCEPT ![p] = [IdleProc EXCEPT
                                 !.ret = Returned("stopped", <<>>, <<>>, <<>>),
                                 !.op = "stop"]]
  /\ UNCHANGED <<checks, graph, workflow, decisions, nextId, delegateFailed, validation>>

\* a bare validateWorkflow(graph) call
Validate ==
  /\ ~validation.done
  /\ validation' = [done |-> TRUE, valid |-> validateWorkflow(graph).valid,
                    errors |-> validateWorkflow(graph).errors]
  /\ UNCHANGED <<checks, graph, workflow, rows, decisions, nextId, cancelled, delegateFailed, pr>>

\* ---------------------------------------------------------------- specifications
Quiescent == \A p \in Procs : pr[p].pc = "idle"

InitCommon ==
  /\ workflow = NotLoaded
  /\ rows = <<>>
  /\ decisions = <<>>
  /\ nextId = 0
  /\ cancelled = FALSE
  /\ delegateFailed = FALSE
  /\ validation = NoValidation
  /\ checks = NoChecks
  /\ pr = [p \in Procs |-> IdleProc]

Init == graph \in Workflows /\ InitCommon

\* Requests served one at a time by one handler
Start == Quiescent /\ StartWorkflow("p1")

Approve ==
  /\ Quiescent
  /\ \E d \in 1..MaxDecisions, o \in Options \cup {BadOption}, t \in BOOLEAN :
       ApproveDecision("p1", d, o, t)

Stop == Quiescent /\ CancelWorkflow("p1")

Loop == ExecuteNextNodes("p1")

BeginNode == ExecuteNode("p1")

EndBatch == BatchDone("p1")

Agent == \E outcome \in {"fail", "ok", "ok_decision"} : RunAgent("p1", outcome)

Next == Start \/ Approve \/ Stop \/ Loop \/ BeginNode \/ Agent \/ EndBatch

Spec == Init /\ [][Next]_vars

\* The run loop of one start call with stop requests that arrive while a
\* delegate is running (the await of runAgent in executeNode) and are served
\* by the second handler
StopInFlight == pr["p1"].pc = "agent" /\ CancelWorkflow("p2")

NextStop == Start \/ Loop \/ BeginNode \/ Agent \/ EndBatch \/ StopInFlight

SpecStop == Init /\ [][NextStop]_vars

\* Two request handlers: a start request is accepted whether or not the other
\* handler's run loop is in flight
StartAny == \E p \in Procs : StartWorkflow(p)

LoopAny == \E p \in Procs : ExecuteNextNodes(p)

BeginNodeAny == \E p \in Procs : ExecuteNode(p)

EndBatchAny == \E p \in Procs : BatchDone(p)

AgentAny ==
  \E p \in Procs, outcome \in {"fail", "ok", "ok_decision"} : RunAgent(p, outcome)

NextStarts == StartAny \/ LoopAny \/ BeginNodeAny \/ AgentAny \/ EndBatchAny

SpecStarts == Init /\ [][NextStarts]_vars

\* The server process restarts: the orchestrator singleton and every call in
\* flight are gone, the database rows stay
Restart ==
  /\ workflow.loaded \/ ~Quiescent
  /\ workflow' = NotLoaded
  /\ pr' = [p \in Procs |-> IdleProc]
  /\ UNCHANGED <<checks, graph, rows, decisions, nextId, cancelled, delegateFailed, validation>>

NextRestart == Next \/ Restart

SpecRestart == Init /\ [][NextRestart]_vars

\* The requests of Spec over graphs whose file sets runQA and runCodeReview
CheckedWorkflows ==
  {WithChecks(Build(Join, "A", Policy(1, 100)), TRUE, TRUE)}
    \cup {WithChecks(Build(Chain, Null, Policy(1, 100)), qa, review) :
             qa \in BOOLEAN, review \in BOOLEAN}

InitChecks == graph \in CheckedWorkflows /\ InitCommon

NextChecks == Next

SpecChecks == InitChecks /\ [][NextChecks]_vars

\* The requests of Spec with a log table that can reject an insert
SinkWorkflows == {Build(Join, "A", Policy(1, 100)), Build(Chain, Null, NoPolicy)}

InitSink == graph \in SinkWorkflows /\ InitCommon

BeginNodeSink == \E logOk \in BOOLEAN : EnterNode("p1", logOk)

AgentSink ==
  \E outcome \in {"fail", "ok", "ok_decision"}, logOk \in BOOLEAN :
    RunLogged("p1", outcome, logOk)

NextSink == Start \/ Approve \/ Stop \/ Loop \/ BeginNodeSink \/ AgentSink \/ EndBatch

SpecSink == InitSink /\ [][NextSink]_vars

\* The requests of Spec over validated graphs, with every await of the run
\* loop resumed once its promise settles (delegates always return)
LiveWorkflows ==
  {Build(Chain, Null, Policy(1, 100)), Build(Join, "A", Policy(1, 100)),
   Build(Chain, "B", NoPolicy)}

InitLive == graph \in LiveWorkflows /\ InitCommon

NextLive == Next

RunLoop == Loop \/ BeginNode \/ Agent \/ EndBatch

SpecLive == InitLive /\ [][NextLive]_vars /\ WF_vars(RunLoop)

\* The requests of Spec with delegates that also resolve with success false
RetryWorkflows ==
  {Build(Chain, Null, pol) : pol \in Policies}
    \cup {Build(Join, "A", Policy(1, 100))}

InitRetry == graph \in RetryWorkflows /\ InitCommon

AgentRetry ==
  \E outcome \in {"fail", "no_success", "ok", "ok_decision"} : RunAgent("p1", outcome)

NextRetry == Start \/ Approve \/ Stop \/ Loop \/ BeginNode \/ AgentRetry \/ EndBatch

SpecRetry == InitRetry /\ [][NextRetry]_vars

\* The mutators of the state manager called by two handlers at once on the
\* row of a run that is paused on node A: each call is the read
\* (getWorkflowState) and, after an await, the write (updateWorkflowState)
StoreGraph == Build(Join, "A", Policy(1, 100))

StoreRows ==
  <<[NewRow(1) EXCEPT !.currentNode = "A", !.pendingDecisions = <<1>>,
                      !.status = "paused"]>>

InitStore ==
  /\ graph = StoreGraph
  /\ workflow = [loaded |-> TRUE, nodes |-> StoreGraph]
  /\ rows = StoreRows
  /\ decisions = <<[nodeId |-> "A", status |-> "pending", selectedOption |-> Null]>>
  /\ nextId = 1
  /\ cancelled = FALSE
  /\ delegateFailed = FALSE
  /\ validation = NoValidation
  /\ checks = NoChecks
  /\ pr = [p \in Procs |-> IdleProc]

NodeMutators == {"markNodeComplete", "markNodeFailed"}

DecisionMutators == {"addPendingDecision", "removePendingDecision"}

\* the object a mutator hands to updateWorkflowState, from the state it read
MutatorUpdates(kind, state, nodeId, decisionId) ==
  CASE kind = "markNodeComplete" -> markNodeCompleteUpdates(state, nodeId)
    [] kind = "markNodeFailed" -> markNodeFailedUpdates(state, nodeId)
    [] kind = "addPendingDecision" -> addPendingDecisionUpdates(state, decisionId)
    [] kind = "removePendingDecision" -> removePendingDecisionUpdates(state, decisionId)
    [] kind = "cancelWorkflow" -> cancelWorkflowUpdates

\* a mutator is called and its getWorkflowState resolves
ReadState(p, kind, nodeId, decisionId) ==
  /\ pr[p].pc = "idle"
  /\ pr[p].op = "none"
  /\ pr' = Set(p, [pc |-> "store", op |-> kind, node |-> nodeId,
                   decisionId |-> decisionId, state |-> getWorkflowState(rows)])
  /\ UNCHANGED <<checks, graph, workflow, rows, decisions, nextId, cancelled,
                 delegateFailed, validation>>

\* its updateWorkflowState runs
WriteState(p) ==
  /\ pr[p].pc = "store"
  /\ rows' = updateWorkflowState(rows,
               MutatorUpdates(pr[p].op, pr[p].state, pr[p].node, pr[p].decisionId))
  /\ pr' = Set(p, [pc |-> "done"])
  /\ UNCHANGED <<checks, graph, workflow, decisions, nextId, cancelled,
                 delegateFailed, validation>>

CallNodeMutator ==
  \E p \in Procs, kind \in NodeMutators, nodeId \in {"A", "B"} :
    ReadState(p, kind, nodeId, 0)

CallDecisionMutator ==
  \E p \in Procs, kind \in DecisionMutators, decisionId \in 1..MaxDecisions :
    ReadState(p, kind, Null, decisionId)

CallCancel == \E p \in Procs : ReadState(p, "cancelWorkflow", Null, 0)

Write == \E p \in Procs : WriteState(p)

NextStore == CallNodeMutator \/ CallDecisionMutator \/ CallCancel \/ Write

SpecStore == InitStore /\ [][NextStore]_vars

\* The requests of Spec over the graph with two approval nodes in one batch
ApprovalsWorkflows ==
  {[i \in 1..Len(Join) |->
      Node(Join[i][1], Join[i][2], Join[i][1] \in {"A", "B"}, Policy(1, 100))]}

InitApprovals == graph \in ApprovalsWorkflows /\ InitCommon

NextApprovals == Next

SpecApprovals == InitApprovals /\ [][NextApprovals]_vars

\* validateWorkflow on its own, over all small graphs
InitValidate ==
  /\ \E k \in 1..MaxNodes :
       \E d \in [1..k -> DepSeqs(SubSeq(IdPool, 1, k) \o <<Missing>>)] :
         graph = ValidationGraph(k, d)
  /\ InitCommon

NextValidate == Validate

SpecValidate == InitValidate /\ [][NextValidate]_vars


\* ------------------------------------------------------------------ properties
CurrentNode == IF HasState(rows) THEN getWorkflowState(rows).currentNode ELSE Null

CompletedNodes == IF HasState(rows) THEN getWorkflowState(rows).completedNodes ELSE <<>>

FailedNodes == IF HasState(rows) THEN getWorkflowState(rows).failedNodes ELSE <<>>

PendingDecisions ==
  IF HasState(rows) THEN getWorkflowState(rows).pendingDecisions ELSE <<>>

\* Graph facts stated without the validator's traversal
NodeIdsOf(wf) == {wf[i].id : i \in 1..Len(wf)}

DepsOf(wf, id) ==
  UNION {Range(wf[i].dependencies) : i \in {j \in 1..Len(wf) : wf[j].id = id}}

RECURSIVE DependsOnWithin(_, _, _)
\* ids reached from the ids in from by following 1..k dependency edges
DependsOnWithin(wf, from, k) ==
  IF k = 0 THEN {}
  ELSE LET step == UNION {DepsOf(wf, id) : id \in from}
       IN step \cup DependsOnWithin(wf, step, k - 1)

Ancestors(wf, id) == DependsOnWithin(wf, {id}, Len(wf) + 1)

HasDependencyCycle(wf) == \E id \in NodeIdsOf(wf) : id \in Ancestors(wf, id)

HasDanglingDependency(wf) ==
  \E id \in NodeIdsOf(wf) : \E d \in DepsOf(wf, id) : d \notin NodeIdsOf(wf)

\* C6: validateWorkflow(G) answers valid = false with at least one error
\* exactly when G has a dependency cycle or a dependency id naming no node.
C6_ValidateIffCycleOrDangling ==
  validation.done =>
    ((~validation.valid /\ Len(validation.errors) >= 1)
       <=> (HasDependencyCycle(graph) \/ HasDanglingDependency(graph)))

C6_Witness ==
  /\ validation.done
  /\ ~validation.valid
  /\ Len(graph) = 3
  /\ HasDependencyCycle(graph)
  /\ ~HasDanglingDependency(graph)
  /\ \A i \in 1..Len(graph) : graph[i].id \notin Range(graph[i].dependencies)


ValidGraph(wf) == ~HasDependencyCycle(wf) /\ ~HasDanglingDependency(wf)

NoApprovalNode(wf) == \A i \in 1..Len(wf) : ~wf[i].requiresApproval

NodeOf(p) == FindNode(workflow.nodes, pr[p].node)

NoDuplicates(s) == \A i \in 1..Len(s), j \in 1..Len(s) : s[i] = s[j] => i = j

\* every dependency of the node at position i of s stands before position i
DependenciesFirst(wf, s) ==
  \A i \in 1..Len(s) :
    \A d \in DepsOf(wf, s[i]) : \E j \in 1..(i - 1) : s[j] = d

\* C1: in every state of a run, status = paused exactly when pendingDecisions
\* is non-empty.
C1_PausedIffPending ==
  HasState(rows) => ((Status = "paused") <=> (PendingDecisions # <<>>))

\* C2: no node id is in both completedNodes and failedNodes.
C2_CompletedFailedDisjoint ==
  Range(CompletedNodes) \cap Range(FailedNodes) = {}

C2_Witness ==
  /\ CompletedNodes # <<>>
  /\ FailedNodes # <<>>
  /\ Status = "running"

\* C3 as stated: status = failed implies failedNodes is non-empty, also after
\* stop on a run in which no node has failed.
C3_FailedImpliesFailedNode ==
  Status = "failed" => FailedNodes # <<>>

\* C3 amended: status = failed implies that failedNodes is non-empty or that
\* stop (cancelWorkflow) has been applied to the run's record.
C3_FailedImpliesFailedNodeOrCancelled ==
  Status = "failed" => (FailedNodes # <<>> \/ cancelled)

C3_Witness ==
  /\ Status = "failed"
  /\ ~cancelled
  /\ FailedNodes # <<>>
  /\ Quiescent

\* C4: once the status of a record is failed or completed it never changes
\* again while that record exists.
C4_TerminalStatusStays ==
  [][(/\ HasState(rows)
      /\ Status \in {"failed", "completed"}
      /\ HasState(rows')
      /\ getWorkflowState(rows').id = getWorkflowState(rows).id)
       => getWorkflowState(rows').status = Status]_vars

\* C5: for a graph that fails validation no execution state is ever created,
\* no run loop is entered and no delegate is invoked.
C5_InvalidGraphNeverScheduled ==
  ~ValidGraph(graph) =>
     /\ ~HasState(rows)
     /\ \A p \in Procs : pr[p].pc = "idle"

\* C7: a delegate is invoked only while every dependency of its node is in
\* completedNodes; every completed node has its dependencies completed at
\* earlier positions; no node with a failed ancestor is executed.
C7_DependencyGating ==
  /\ \A p \in Procs :
       pr[p].pc = "agent" =>
         /\ DepsOf(workflow.nodes, pr[p].node) \subseteq Range(CompletedNodes)
         /\ Ancestors(workflow.nodes, pr[p].node) \cap Range(FailedNodes) = {}
  /\ DependenciesFirst(workflow.nodes, CompletedNodes)
  /\ \A id \in Range(CompletedNodes) :
       Ancestors(workflow.nodes, id) \cap Range(FailedNodes) = {}

C7_Witness ==
  /\ pr["p1"].pc = "agent"
  /\ pr["p1"].node = "C"
  /\ Len(NodeOf("p1").dependencies) = 2
  /\ CompletedNodes = <<"A", "B">>

\* C8: a node with retry limit n whose delegate fails on every invocation has
\* its delegate invoked exactly n+1 times; the last failure puts the node in
\* failedNodes, clears currentNode, sets status failed and yields outcome failed.
C8_RetryLaw ==
  [][\A p \in Procs :
       (/\ pr[p].pc = "agent"
        /\ pr'[p].attempts = pr[p].attempts + 1
        /\ pr'[p].agentResult = "fail")
       => LET n == NodeOf(p).retryPolicy.maxRetries
          IN /\ pr'[p].attempts <= n + 1
             /\ pr'[p].attempts <= n =>
                  /\ pr'[p].pc = "agent"
                  /\ pr'[p].result = "none"
                  /\ ~Includes(FailedNodes', pr[p].node)
             /\ pr'[p].attempts = n + 1 =>
                  /\ pr'[p].pc = "node"
                  /\ pr'[p].result = "failed"
                  /\ Includes(FailedNodes', pr[p].node)
                  /\ CurrentNode' = Null
                  /\ Status' = "failed"]_vars

C8_Witness ==
  /\ pr["p1"].result = "failed"
  /\ pr["p1"].attempts = 3
  /\ NodeOf("p1").retryPolicy.maxRetries = 2
  /\ Includes(FailedNodes, pr["p1"].node)
  /\ Status = "failed"

\* C9: with retry policy base b >= 0 (0 included), the delay slept before the
\* k-th retry is b * 2^(k-1), so n exhausted retries sleep b * (2^n - 1).
C9_BackoffLaw ==
  \A p \in Procs :
    (pr[p].node # Null /\ NodeOf(p).retryPolicy.defined) =>
      \A k \in 1..Len(pr[p].delays) :
        pr[p].delays[k] = NodeOf(p).retryPolicy.backoffMs * Pow2(k - 1)

\* C10: for a valid graph without approval nodes whose delegates all succeed,
\* start on a project without state returns status completed with every node
\* once in completedNodes, each after its dependencies, and failedNodes empty.
C10_AllSucceedCompletes ==
  [][(/\ pr["p1"].pc # "idle"
      /\ pr'["p1"].pc = "idle"
      /\ pr'["p1"].op = "start"
      /\ ValidGraph(graph)
      /\ NoApprovalNode(graph)
      /\ nextId' = 1
      /\ ~cancelled'
      /\ ~delegateFailed')
       => /\ pr'["p1"].ret.kind = "value"
          /\ pr'["p1"].ret.status = "completed"
          /\ Status' = "completed"
          /\ pr'["p1"].ret.completedNodes = CompletedNodes'
          /\ Range(CompletedNodes') = NodeIdsOf(graph)
          /\ NoDuplicates(CompletedNodes')
          /\ DependenciesFirst(graph, CompletedNodes')
          /\ FailedNodes' = <<>>]_vars

C10_Witness ==
  /\ pr["p1"].pc = "idle"
  /\ pr["p1"].op = "start"
  /\ pr["p1"].ret.status = "completed"
  /\ pr["p1"].ret.completedNodes = <<"A", "B", "C">>
  /\ DepsOf(graph, "C") = {"B"}
  /\ nextId = 1
  /\ ~delegateFailed
  /\ Status = "completed"

\* ------------------------------------------------------- approval and stop claims
\* a step of approveDecision, whatever its arguments
ApproveStep ==
  \E d \in 1..MaxDecisions, o \in Options \cup {BadOption}, t \in BOOLEAN :
    ApproveDecision("p1", d, o, t)

\* the nodes that raised a decision in the current run, as far as the state
\* tells: in the first run of the project every decision on record is its own
AwaitedNodes ==
  IF HasState(rows) /\ nextId = 1
  THEN {decisions[d].nodeId : d \in 1..Len(decisions)}
  ELSE {}

\* the delegate of an approval node returns a decision id: the run is paused on
\* that decision and the node is neither completed nor failed
PausedOnDecision ==
  (RunAgent("p1", "ok_decision") /\ HasState(rows))
    => /\ Status' = "paused"
       /\ Includes(PendingDecisions', Len(decisions'))
       /\ ~Includes(CompletedNodes', pr["p1"].node)
       /\ ~Includes(FailedNodes', pr["p1"].node)
       /\ pr'["p1"].result = "awaiting_approval"

\* the call that ran the node returns paused, leaving the state as it is
CallEndsPaused ==
  (BatchDone("p1") /\ pr["p1"].result = "awaiting_approval")
    => /\ pr'["p1"].pc = "idle"
       /\ pr'["p1"].ret.kind = "value"
       /\ pr'["p1"].ret.status = "paused"
       /\ Status' = "paused"
       /\ PendingDecisions' # <<>>
       /\ ~Includes(CompletedNodes', pr["p1"].node)
       /\ ~Includes(FailedNodes', pr["p1"].node)

\* a node that raised a decision in this run enters completedNodes only in a
\* step of approveDecision (stated for the first run of the project)
CompletedOnlyByApproval ==
  \A n \in AwaitedNodes :
    (~Includes(CompletedNodes, n) /\ Includes(CompletedNodes', n)) => ApproveStep

\* C11: when the delegate of an approval node returns decision id d, the call
\* ends with status paused, d pending and the node neither completed nor
\* failed, and the node enters completedNodes only by a later approveDecision
C11_ApprovalPause ==
  [][PausedOnDecision /\ CallEndsPaused /\ CompletedOnlyByApproval]_vars

\* approveDecision of a pending decision of a paused run with one of its options,
\* the option's follow-up succeeding: the decision leaves pendingDecisions, its
\* record is approved with that option, the node that raised it is completed
\* and the run loop is entered
ApprovalResumes ==
  \A d \in 1..Len(decisions), o \in Options :
    (/\ ApproveDecision("p1", d, o, TRUE)
     /\ Status = "paused"
     /\ Includes(PendingDecisions, d))
      => /\ ~Includes(PendingDecisions', d)
         /\ decisions'[d].status = "approved"
         /\ decisions'[d].selectedOption = o
         /\ Includes(CompletedNodes', decisions[d].nodeId)
         /\ pr'["p1"].pc = "loop"

\* the approveDecision call ends in the run loop with status completed: every
\* node is completed then
ApprovalCompletesAll ==
  (/\ ExecuteNextNodes("p1")
   /\ pr["p1"].op = "approve"
   /\ pr'["p1"].pc = "idle"
   /\ pr'["p1"].ret.status = "completed")
    => /\ Status' = "completed"
       /\ \A i \in 1..Len(workflow.nodes) :
            Includes(CompletedNodes', workflow.nodes[i].id)

\* C12: approving pending decision d of a paused run with a valid option removes
\* d from pendingDecisions, marks the decision approved with that option,
\* completes the node that raised d and continues the run loop, which ends
\* with status completed and every node completed
C12_ApprovalResume == [][ApprovalResumes /\ ApprovalCompletesAll]_vars

\* C13: approveDecision with a decision id that is not in pendingDecisions
\* fails, changes neither the execution state nor the decision records, and
\* enters no continuation and no run loop
C13_ApproveAtMostOnce ==
  [][\A d \in 1..MaxDecisions, o \in Options \cup {BadOption}, t \in BOOLEAN :
       (ApproveDecision("p1", d, o, t) /\ ~Includes(PendingDecisions, d))
         => /\ pr'["p1"].pc = "idle"
            /\ pr'["p1"].ret.kind \in {"error", "failure"}
            /\ rows' = rows
            /\ decisions' = decisions]_vars

\* C14: approveDecision of a pending decision of a paused run with an option
\* the decision does not have is rejected and leaves status, pendingDecisions,
\* currentNode, completedNodes and the decision record as they were
C14_InvalidOptionRejected ==
  [][\A d \in 1..Len(decisions), t \in BOOLEAN :
       (/\ ApproveDecision("p1", d, BadOption, t)
        /\ Status = "paused"
        /\ Includes(PendingDecisions, d))
         => /\ pr'["p1"].pc = "idle"
            /\ pr'["p1"].ret.kind \in {"error", "failure"}
            /\ Status' = "paused"
            /\ Includes(PendingDecisions', d)
            /\ CurrentNode' = CurrentNode
            /\ CompletedNodes' = CompletedNodes
            /\ decisions'[d] = decisions[d]]_vars

IsPrefix(s, t) == Len(s) <= Len(t) /\ SubSeq(t, 1, Len(s)) = s

\* start called on a record whose status is running
StartOnRunning == StartWorkflow("p1") /\ HasState(rows) /\ Status = "running"

\* C15: start on a run whose status is running creates no second record and
\* keeps the record: the record id stays, completedNodes only grows at its end
\* while the call runs, and no node already completed is executed again
C15_StartOnRunningResumes ==
  [][/\ StartOnRunning
          => /\ rows' = rows
             /\ nextId' = nextId
             /\ pr'["p1"].pc = "loop"
     /\ (pr["p1"].op = "start" /\ pr["p1"].pc # "idle")
          => /\ Len(rows') = Len(rows)
             /\ RunId' = RunId
             /\ IsPrefix(CompletedNodes, CompletedNodes')
     /\ ExecuteNode("p1") => ~Includes(CompletedNodes, Head(pr["p1"].batch))]_vars

\* a start call on a running record is executing the approval node that raised
\* a decision earlier in the same record, with a node completed before the call
C15_Witness ==
  /\ pr["p1"].op = "start"
  /\ pr["p1"].pc = "agent"
  /\ CompletedNodes # <<>>
  /\ PendingDecisions = <<>>
  /\ nextId = 1
  /\ \E d \in 1..Len(decisions) : decisions[d].nodeId = pr["p1"].node

\* C16: while status is paused no node is executed: start and the run loop on
\* a paused run change neither the execution state nor the decisions, invoke no
\* delegate, and the loop returns at once with the pending decisions
C16_PausedRunsNothing ==
  [][(HasState(rows) /\ Status = "paused")
       => /\ pr["p1"].pc # "agent"
          /\ ~ExecuteNode("p1")
          /\ (StartWorkflow("p1") \/ ExecuteNextNodes("p1"))
               => (rows' = rows /\ decisions' = decisions)
          /\ StartWorkflow("p1") => pr'["p1"].pc = "loop"
          /\ ExecuteNextNodes("p1")
               => /\ pr'["p1"].pc = "idle"
                  /\ pr'["p1"].ret = Returned("paused", <<>>, <<>>, PendingDecisions)
                  /\ PendingDecisions # <<>>]_vars

\* a start call on a paused run has returned the pending decisions with the
\* record still paused
C16_Witness ==
  /\ Status = "paused"
  /\ pr["p1"].pc = "idle"
  /\ pr["p1"].op = "start"
  /\ pr["p1"].ret.status = "paused"
  /\ pr["p1"].ret.pendingDecisions = PendingDecisions
  /\ PendingDecisions # <<>>

\* C17: stop from any status leaves status failed and currentNode empty and
\* touches nothing else of the record; without a record it does nothing;
\* it has no failing outcome and a second stop changes nothing
C17_StopForcesFailed ==
  [][CancelWorkflow("p1")
       => /\ pr'["p1"].pc = "idle"
          /\ pr'["p1"].ret.kind = "value"
          /\ cancelWorkflow(rows') = rows'
          /\ Len(rows') = Len(rows)
          /\ HasState(rows)
               => /\ Status' = "failed"
                  /\ CurrentNode' = Null
                  /\ CompletedNodes' = CompletedNodes
                  /\ FailedNodes' = FailedNodes
                  /\ PendingDecisions' = PendingDecisions
                  /\ RunId' = RunId]_vars

\* a run stopped while it was paused on a node: failed, no node failed,
\* currentNode cleared, the decision still listed
C17_Witness ==
  /\ cancelled
  /\ Status = "failed"
  /\ CurrentNode = Null
  /\ FailedNodes = <<>>
  /\ PendingDecisions # <<>>
  /\ Quiescent
  /\ pr["p1"].op = "stop"

\* C18: once stop has been applied to a run, no delegate is invoked for that
\* run by any later operation, until start creates a fresh run
C18_NoDelegateAfterStop == cancelled => pr["p1"].pc # "agent"

\* C19: after a stop that arrives while a node's delegate is running, the loop
\* starts no further node and the persisted status stays failed, whatever the
\* outcome of the delegate in flight
C19_CooperativeCancellation ==
  [][(cancelled /\ cancelled') => (~ExecuteNode("p1") /\ Status' = "failed")]_vars

\* C20: at most one run loop is in flight for the project, no node's delegate
\* is run by two loops at once, and no node id is in completedNodes twice
C20_SingleRunLoop ==
  /\ Cardinality({p \in Procs : pr[p].pc # "idle"}) <= 1
  /\ ~(/\ pr["p1"].pc = "agent"
       /\ pr["p2"].pc = "agent"
       /\ pr["p1"].node = pr["p2"].node)
  /\ NoDuplicates(CompletedNodes)

\* ------------------------------------------- failure, restart and batch claims
\* C21: an approval node whose delegate succeeds without a decision id is a
\* permanent failure: the node enters failedNodes and not completedNodes, the
\* status becomes failed and the delegate is not invoked again
C21_MissingDecisionFails ==
  [][(/\ RunAgent("p1", "ok")
      /\ HasState(rows)
      /\ FindNode(workflow.nodes, pr["p1"].node).requiresApproval)
       => /\ Includes(FailedNodes', pr["p1"].node)
          /\ ~Includes(CompletedNodes', pr["p1"].node)
          /\ Status' = "failed"
          /\ pr'["p1"].pc # "agent"]_vars

\* the nodes that depend, directly or through other nodes, on a failed node
StuckNodes ==
  {id \in NodeIdsOf(workflow.nodes) :
     Ancestors(workflow.nodes, id) \cap Range(FailedNodes) # {}}

\* dependents of a failed node are never executed and are in neither list
StuckNeverRuns ==
  /\ \A id \in StuckNodes :
       /\ ~Includes(CompletedNodes, id)
       /\ ~Includes(FailedNodes, id)
       /\ pr["p1"].pc = "agent" => pr["p1"].node # id
  /\ ExecuteNode("p1") => Head(pr["p1"].batch) \notin StuckNodes

\* a start call in whose run a node has failed ends with status failed
StuckEndsFailed ==
  (/\ pr["p1"].op = "start"
   /\ pr["p1"].pc # "idle"
   /\ pr'["p1"].pc = "idle"
   /\ FailedNodes' # <<>>)
    => /\ Status' = "failed"
       /\ pr'["p1"].ret.status = "failed"

\* C22: when a node has failed for good, none of its direct or transitive
\* dependents is executed or enters completedNodes or failedNodes, and the
\* start call ends with status failed
C22_StuckBranch == [][StuckNeverRuns /\ StuckEndsFailed]_vars

\* the ids the persisted record leaves eligible, by the graph alone
StillEligible ==
  {id \in NodeIdsOf(graph) :
     /\ ~Includes(CompletedNodes, id)
     /\ ~Includes(FailedNodes, id)
     /\ DepsOf(graph, id) \subseteq Range(CompletedNodes)}

\* start after a restart, on a persisted record that is running or paused
StartAfterRestart ==
  /\ StartWorkflow("p1")
  /\ ~workflow.loaded
  /\ HasState(rows)
  /\ Status \in {"running", "paused"}

\* the start keeps the record and enters the run loop
ResumesPersisted == StartAfterRestart => (rows' = rows /\ pr'["p1"].pc = "loop")

\* no delegate is invoked for a node that is already completed or failed
NoSettledNodeRuns ==
  ExecuteNode("p1")
    => /\ ~Includes(CompletedNodes, Head(pr["p1"].batch))
       /\ ~Includes(FailedNodes, Head(pr["p1"].batch))

\* on a running record the loop of a start call takes exactly the eligible
\* nodes as its batch, and completes the run when there is none
RunsStillEligible ==
  (ExecuteNextNodes("p1") /\ pr["p1"].op = "start" /\ Status = "running")
    => IF StillEligible = {}
       THEN Status' = "completed"
       ELSE /\ pr'["p1"].pc = "node"
            /\ Range(pr'["p1"].batch) = StillEligible

\* C23: after a restart with the persisted run running or paused, a later start
\* resumes from the persisted record: it keeps the record, invokes no delegate
\* of a node already completed or failed, and on a running record goes on with
\* exactly the still-eligible nodes
C23_ResumeAcrossRestart ==
  [][ResumesPersisted /\ NoSettledNodeRuns /\ RunsStillEligible]_vars

\* start called on a record whose status is failed or completed
StartOnTerminal ==
  StartWorkflow("p1") /\ HasState(rows) /\ Status \in {"failed", "completed"}

\* C24: start on a failed or completed run discards the record and begins a
\* fresh one: one record with a new id, status running, currentNode empty and
\* completedNodes, failedNodes and pendingDecisions empty, and it stays so up
\* to the first node of the new run
C24_FreshRunAfterTerminal ==
  [][/\ StartOnTerminal
          => /\ rows' = <<NewRow(nextId')>>
             /\ RunId' # RunId
             /\ Status' = "running"
             /\ CurrentNode' = Null
             /\ CompletedNodes' = <<>>
             /\ FailedNodes' = <<>>
             /\ PendingDecisions' = <<>>
             /\ pr'["p1"].pc = "loop"
     /\ (ExecuteNextNodes("p1") /\ pr'["p1"].pc = "node") => rows' = rows]_vars

\* the loop of a start call is about to take its first batch on the second
\* record of the project, the first one having been discarded
C24_Witness ==
  /\ pr["p1"].op = "start"
  /\ pr["p1"].pc = "node"
  /\ nextId = 2
  /\ rows = <<NewRow(2)>>
  /\ pr["p1"].batch # <<>>

\* C25: approveDecision, stop and the run loop, called for a project without an
\* execution state, report an error to the caller, create no record and enter
\* no run loop
C25_StateNotFound ==
  [][~HasState(rows)
       => /\ ApproveStep
               => /\ pr'["p1"].pc = "idle"
                  /\ pr'["p1"].ret.kind = "error"
                  /\ rows' = rows
          /\ ExecuteNextNodes("p1")
               => /\ pr'["p1"].pc = "idle"
                  /\ pr'["p1"].ret.kind = "error"
                  /\ rows' = rows
          /\ CancelWorkflow("p1")
               => /\ pr'["p1"].pc = "idle"
                  /\ pr'["p1"].ret.kind = "error"
                  /\ rows' = rows]_vars

\* C26: the run loop, finding no eligible node, marks the run completed only
\* when failedNodes is empty and otherwise leaves the status failed; so status
\* completed implies that failedNodes is empty
C26_CompletedImpliesNoFailure == Status = "completed" => FailedNodes = <<>>

\* C27: once a node has exhausted its retries, no other node's delegate is
\* invoked in that run, eligible siblings of the same batch included
C27_LoopStopsAfterFailure ==
  [][ExecuteNode("p1") => FailedNodes = <<>>]_vars

\* C28: when a node of a batch returns awaiting-approval, no later node of the
\* batch is executed and the call returns a paused result at once, without
\* another batch and without touching the record
C28_ApprovalBreaksBatch ==
  [][(pr["p1"].pc = "node" /\ pr["p1"].result = "awaiting_approval")
       => /\ ~ExecuteNode("p1")
          /\ BatchDone("p1")
               => /\ pr'["p1"].pc = "idle"
                  /\ pr'["p1"].ret.kind = "value"
                  /\ pr'["p1"].ret.status = "paused"
                  /\ rows' = rows
                  /\ Status' = "paused"]_vars

\* a start call has returned paused from the batch loop and a sibling of the
\* awaiting node, eligible in the same batch, was left unexecuted
C28_Witness ==
  /\ pr["p1"].pc = "idle"
  /\ pr["p1"].op = "start"
  /\ pr["p1"].ret.status = "paused"
  /\ pr["p1"].ret.pendingDecisions = <<>>
  /\ Status = "paused"
  /\ CurrentNode # Null
  /\ StillEligible \ {CurrentNode} # {}

\* C29: a successful approveDecision of pending decision d completes exactly the
\* node that raised d, whatever the state the approval arrives in: that node is
\* in completedNodes afterwards and no other node is added by the approval
C29_ApprovalCompletesOriginator ==
  [][\A d \in 1..Len(decisions), o \in Options :
       (ApproveDecision("p1", d, o, TRUE) /\ Includes(PendingDecisions, d))
         => /\ Includes(CompletedNodes', decisions[d].nodeId)
            /\ Range(CompletedNodes') \ Range(CompletedNodes)
                 \subseteq {decisions[d].nodeId}]_vars

\* C30: the side checks are advisory. Whenever a pass of executeNode has run
\* with some verdicts of the quality check and the review, the same pass with
\* any other verdicts the node's flags allow (pass or not pass) has the same
\* successor: the same node result, the same count of delegate calls and
\* retries, the same workflow_states row and the same decisions
C30_ChecksAdvisory ==
  [][pr["p1"].pc = "agent" =>
       LET node == FindNode(workflow.nodes, pr["p1"].node)
       IN \A o \in AgentOutcomes(node) :
            \A qa1 \in Verdicts(node.runQA, o), qa2 \in Verdicts(node.runQA, o),
               review1 \in Verdicts(node.runCodeReview, o),
               review2 \in Verdicts(node.runCodeReview, o) :
              RunAttempt("p1", o, qa1, review1) => RunAttempt("p1", o, qa2, review2)]_vars

\* a node with both flags set has completed on its first delegate call although
\* the quality check and the review both answered not pass
C30_Witness ==
  /\ pr["p1"].pc = "node"
  /\ pr["p1"].result = "completed"
  /\ pr["p1"].attempts = 1
  /\ FindNode(workflow.nodes, pr["p1"].node).runQA
  /\ FindNode(workflow.nodes, pr["p1"].node).runCodeReview
  /\ checks = [qa |-> "fail", review |-> "fail"]
  /\ Includes(CompletedNodes, pr["p1"].node)
  /\ FailedNodes = <<>>

\* the node-started event: executeNode goes on to the delegate whether or not
\* the insert succeeds
SinkStartNoInfluence == EnterNode("p1", FALSE) => EnterNode("p1", TRUE)

\* the events of one pass: with the same delegate outcome and verdicts the pass
\* ends in the same result, attempts, row and decisions whether or not the
\* inserts succeed
SinkPassNoInfluence ==
  pr["p1"].pc = "agent" =>
    LET node == FindNode(workflow.nodes, pr["p1"].node)
    IN \A o \in AgentOutcomes(node) :
         \A qa \in Verdicts(node.runQA, o), review \in Verdicts(node.runCodeReview, o) :
           TryNode("p1", o, qa, review, FALSE) => TryNode("p1", o, qa, review, TRUE)

\* C31: a failure of the log table while an event of executeNode is recorded
\* changes neither the node's result nor the count of delegate calls nor the
\* row: every step taken with a rejected insert is the step taken with an
\* accepted one
C31_SinkNoInfluence == [][SinkStartNoInfluence /\ SinkPassNoInfluence]_vars

\* position of a node id in the graph definition
DeclaredAt(id) == CHOOSE i \in 1..Len(workflow.nodes) : workflow.nodes[i].id = id

\* C32: the nodes of a batch are executed one at a time in declaration order.
\* When the loop starts the next node of a batch, that node is declared before
\* every node left in the batch and after the node executed just before it,
\* and that earlier node's outcome is already in the row: it is in
\* completedNodes or failedNodes and currentNode has been cleared
C32_BatchInDeclarationOrder ==
  [][ExecuteNode("p1") =>
       LET next == Head(pr["p1"].batch)
           prev == pr["p1"].node
       IN /\ pr'["p1"].node = next
          /\ \A m \in Range(pr'["p1"].batch) : DeclaredAt(next) < DeclaredAt(m)
          /\ prev # Null =>
               /\ DeclaredAt(prev) < DeclaredAt(next)
               /\ pr["p1"].result \in {"completed", "failed"}
               /\ pr["p1"].result = "completed" => Includes(CompletedNodes, prev)
               /\ pr["p1"].result = "failed" => Includes(FailedNodes, prev)
               /\ CurrentNode = Null]_vars

\* the second node of a two-node batch has been started after the first one's
\* delegate ran and its completion was written
C32_Witness ==
  /\ pr["p1"].pc = "agent"
  /\ pr["p1"].op = "start"
  /\ pr["p1"].node = "B"
  /\ NodeOf("p1").dependencies = <<>>
  /\ CompletedNodes = <<"A">>
  /\ CurrentNode = "B"

\* a handler that entered the run loop returns to its caller
LoopReturns == pr["p1"].pc # "idle" /\ pr'["p1"].pc = "idle"

\* the call that returns from the run loop returns a value whose status is the
\* persisted one, and that status is paused, completed or failed
ReturnsSettled ==
  LoopReturns =>
    /\ pr'["p1"].ret.kind = "value"
    /\ pr'["p1"].ret.status = Status'
    /\ Status' \in {"paused", "completed", "failed"}

\* a batch that is followed by the recursive call has executed a node that was
\* in neither list before and is in completedNodes or failedNodes now
BatchProgress ==
  /\ ExecuteNode("p1") =>
       /\ ~Includes(CompletedNodes, Head(pr["p1"].batch))
       /\ ~Includes(FailedNodes, Head(pr["p1"].batch))
  /\ (BatchDone("p1") /\ pr'["p1"].pc = "loop") =>
       /\ pr["p1"].node # Null
       /\ Includes(CompletedNodes, pr["p1"].node) \/ Includes(FailedNodes, pr["p1"].node)

\* C33: over a validated graph with delegates that always return, every start
\* call and every successful approveDecision call returns, with the persisted
\* status paused, completed or failed, and every batch that recurses has added
\* a node to completedNodes or failedNodes
C33_Termination ==
  /\ [][ReturnsSettled /\ BatchProgress]_vars
  /\ (pr["p1"].pc # "idle") ~> (pr["p1"].pc = "idle")

\* a successful approveDecision call has gone through two further batches and
\* returned completed
C33_Witness ==
  /\ pr["p1"].pc = "idle"
  /\ pr["p1"].op = "approve"
  /\ pr["p1"].ret.kind = "value"
  /\ pr["p1"].ret.status = "completed"
  /\ Status = "completed"
  /\ Len(CompletedNodes) = 3

\* C34: retry stops at the first success. Every delegate call of a node follows
\* k failed ones (k = retries, at most the retry limit n). A call that throws
\* and a call that resolves with success false are both counted as a failure:
\* retries goes up by one and the node is not completed. A call that succeeds
\* is call k+1 and the last one: the node is completed (or awaits approval), is
\* not in failedNodes, and the status is not set to failed by it
C34_RetryStopsAtSuccess ==
  [][(pr["p1"].pc = "agent" /\ pr'["p1"].attempts = pr["p1"].attempts + 1)
       => LET n == maxRetriesOf(NodeOf("p1"))
              id == pr["p1"].node
              k == pr["p1"].retries
          IN /\ pr["p1"].attempts = k
             /\ k <= n
             /\ pr'["p1"].agentResult \in {"fail", "no_success"} =>
                  /\ pr'["p1"].retries = k + 1
                  /\ pr'["p1"].result # "completed"
                  /\ ~Includes(CompletedNodes', id)
                  /\ pr'["p1"].pc = "agent" <=> k < n
             /\ pr'["p1"].agentResult \in {"ok", "ok_decision"} =>
                  /\ pr'["p1"].attempts = k + 1
                  /\ pr'["p1"].pc = "node"
                  /\ pr'["p1"].result \in {"completed", "awaiting_approval"}
                  /\ pr'["p1"].result = "completed" => Includes(CompletedNodes', id)
                  /\ ~Includes(FailedNodes', id)
                  /\ Status' = "failed" => Status = "failed"]_vars

\* a node with retry limit 2 has completed on its third delegate call, after
\* two failed ones, and the run goes on
C34_Witness ==
  /\ pr["p1"].pc = "node"
  /\ maxRetriesOf(NodeOf("p1")) = 2
  /\ pr["p1"].retries = 2
  /\ pr["p1"].attempts = 3
  /\ pr["p1"].agentResult = "ok"
  /\ pr["p1"].result = "completed"
  /\ Includes(CompletedNodes, pr["p1"].node)
  /\ FailedNodes = <<>>
  /\ Status = "running"

\* a mutator call applied on its own to the table
Applied(p, rs) ==
  updateWorkflowState(rs,
    MutatorUpdates(pr[p].op, getWorkflowState(rs), pr[p].node, pr[p].decisionId))

\* C35: mutators on one project are linearized. When the two calls have both
\* written, the row is the one that applying them one after the other, in one
\* of the two orders, gives
C35_MutatorsLinearized ==
  (pr["p1"].pc = "done" /\ pr["p2"].pc = "done")
    => rows \in {Applied("p2", Applied("p1", StoreRows)),
                 Applied("p1", Applied("p2", StoreRows))}

\* C36: within one run completedNodes and failedNodes are append-only and free
\* of duplicates. A step that keeps the row (anything but the delete + create
\* of a fresh start) keeps both lists as prefixes of the new ones, and no node
\* id occurs twice in either list
C36_ListsAppendOnly ==
  [][(HasState(rows) /\ HasState(rows') /\ RunId' = RunId)
       => /\ IsPrefix(CompletedNodes, CompletedNodes')
          /\ IsPrefix(FailedNodes, FailedNodes')
          /\ NoDuplicates(CompletedNodes')
          /\ NoDuplicates(FailedNodes')]_vars

\* an approval has resumed a run that then completed two nodes and failed one
C36_Witness ==
  /\ pr["p1"].op = "approve"
  /\ Len(CompletedNodes) = 2
  /\ Len(FailedNodes) = 1
  /\ NoDuplicates(CompletedNodes \o FailedNodes)

\* C37: over a validated graph a run whose status is completed has every node
\* of the graph in completedNodes
C37_CompletedMeansAllNodes ==
  (ValidGraph(graph) /\ Status = "completed")
    => NodeIdsOf(graph) \subseteq Range(CompletedNodes)

\* C38: under serialized start, approveDecision and stop requests
\* pendingDecisions holds at most one decision id and never the same id twice
C38_OnePendingDecision ==
  /\ Len(PendingDecisions) <= 1
  /\ NoDuplicates(PendingDecisions)

\* the first approval node of a batch of two awaits its decision, the second
\* one was left unexecuted, and a decision approved earlier is not pending
C38_Witness ==
  /\ pr["p1"].pc = "idle"
  /\ Status = "paused"
  /\ Len(decisions) = 2
  /\ decisions[1].status = "approved"
  /\ PendingDecisions = <<2>>
  /\ \E i \in 1..Len(graph) :
       /\ graph[i].requiresApproval
       /\ graph[i].id # decisions[2].nodeId
       /\ graph[i].id \in StillEligible

\* C39: within one run the delegate of an approval node produces a decision at
\* most once. In the first run of a project, a delegate call is never made for
\* a node that already has a decision, whatever approveDecision, stop and start
\* requests came in between
C39_DecisionAtMostOnce ==
  [][(/\ pr["p1"].pc = "agent"
      /\ pr'["p1"].attempts = pr["p1"].attempts + 1
      /\ nextId = 1)
       => \A d \in 1..Len(decisions) : decisions[d].nodeId # pr["p1"].node]_vars

\* C40: currentNode names a node only while that node is executing or awaiting
\* approval. While the persisted status is completed or failed currentNode is
\* empty, at every point of a run and so whenever a start, approveDecision or
\* stop call has returned with one of these statuses
C40_CurrentNodeCleared ==
  Status \in {"completed", "failed"} => CurrentNode = Null

====
